---- MODULE Spec2Model ----
(***************************************************************************)
(* Crypto Risk Commander: the analysis backend (backend.py) and the        *)
(* session/login flow of the Streamlit front end (frontend.py).            *)
(*                                                                         *)
(* Numbers.  The backend computes on IEEE doubles through pandas/numpy.    *)
(* A double is modelled as a record [kind, num, den]:                      *)
(*   kind = "fin"  the rational num/den (den > 0, lowest terms),           *)
(*   kind = "nan"  NaN,   kind = "inf" / "ninf"  +infinity / -infinity.    *)
(* Finite arithmetic is exact (rounding is abstracted away); the special   *)
(* values follow IEEE-754: x/0 is +-inf, 0/0 and inf-inf are NaN, NaN      *)
(* propagates and every comparison with NaN is false.                      *)
(* A volatility is std * sqrt(365), in general irrational; it is the       *)
(* record [kind, rad, num, den] standing for sqrt(rad * num/den).          *)
(***************************************************************************)
EXTENDS Integers, Sequences, FiniteSets, TLC

VARIABLES
    call,       \* backend: the invocation being served (operation + upstream data)
    result,     \* backend: analyze_market's local `result` (line 89)
    ret,        \* backend: what the invocation returned / the HTTP response
    logged_in,  \* st.session_state["logged_in"]
    username,   \* st.session_state["username"]
    users,      \* st.session_state["users"]
    page,       \* st.session_state["page"]
    view,       \* the page function the app flow controller rendered
    message,    \* the st.error / st.success text of the last script run
    login_form, \* values of the last submitted login form
    register_form \* values of the last submitted registration form

backend_vars == <<call, result, ret>>
frontend_vars == <<logged_in, username, users, page, view, message, login_form, register_form>>
vars == <<call, result, ret, logged_in, username, users, page, view, message, login_form, register_form>>

----------------------------------------------------------------------------
(* Bounds of the model *)

\* longest upstream price series
MaxLen == 4

\* prices an upstream sample may carry (0 is a legal price: price >= 0)
Prices == {0, 90, 100, 110, 120}

\* spacing of the upstream millisecond timestamps (0: duplicated stamps)
StampSteps == {0, 1}

\* volatilities get_risk_level is called on directly
VolSamples == {0, 29, 30, 31, 59, 60, 61, 99, 100, 101, 250}

----------------------------------------------------------------------------
(* Doubles *)

Abs(x) == IF x < 0 THEN -x ELSE x

RECURSIVE GCD(_, _)
GCD(a, b) == IF b = 0 THEN a ELSE GCD(b, a % b)

NaN == [kind |-> "nan", num |-> 0, den |-> 1]
Inf == [kind |-> "inf", num |-> 0, den |-> 1]
NInf == [kind |-> "ninf", num |-> 0, den |-> 1]

Fin(n, d) ==
    LET g == GCD(Abs(n), Abs(d))
        s == IF d < 0 THEN -1 ELSE 1
    IN [kind |-> "fin", num |-> s * (n \div g), den |-> s * (d \div g)]

FromInt(n) == [kind |-> "fin", num |-> n, den |-> 1]

isnan(x) == x.kind = "nan"
IsFin(x) == x.kind = "fin"
Sign(x) == CASE x.kind = "inf" -> 1
             [] x.kind = "ninf" -> -1
             [] x.kind = "fin" -> (IF x.num > 0 THEN 1 ELSE IF x.num < 0 THEN -1 ELSE 0)
             [] OTHER -> 0

FNeg(x) == CASE x.kind = "fin" -> Fin(-x.num, x.den)
             [] x.kind = "inf" -> NInf
             [] x.kind = "ninf" -> Inf
             [] OTHER -> NaN

FAdd(x, y) ==
    IF isnan(x) \/ isnan(y) THEN NaN
    ELSE IF IsFin(x) /\ IsFin(y) THEN
        LET l == (x.den \div GCD(x.den, y.den)) * y.den
        IN Fin(x.num * (l \div x.den) + y.num * (l \div y.den), l)
    ELSE IF IsFin(x) THEN y
    ELSE IF IsFin(y) THEN x
    ELSE IF x.kind = y.kind THEN x
    ELSE NaN

FSub(x, y) == FAdd(x, FNeg(y))

FMul(x, y) ==
    IF isnan(x) \/ isnan(y) THEN NaN
    ELSE IF IsFin(x) /\ IsFin(y) THEN
        LET a == Fin(x.num, y.den)
            b == Fin(y.num, x.den)
        IN Fin(a.num * b.num, a.den * b.den)
    ELSE IF Sign(x) * Sign(y) > 0 THEN Inf
    ELSE IF Sign(x) * Sign(y) < 0 THEN NInf
    ELSE NaN

FDiv(x, y) ==
    IF isnan(x) \/ isnan(y) THEN NaN
    ELSE IF IsFin(x) /\ IsFin(y) THEN
        IF y.num # 0 THEN FMul(x, Fin(y.den, y.num))
        ELSE IF x.num > 0 THEN Inf
        ELSE IF x.num < 0 THEN NInf
        ELSE NaN
    ELSE IF IsFin(y) THEN (IF Sign(y) < 0 THEN FNeg(x) ELSE x)
    ELSE IF IsFin(x) THEN FromInt(0)
    ELSE NaN

\* x < y on doubles (false as soon as one side is NaN)
FLess(x, y) ==
    IF isnan(x) \/ isnan(y) THEN FALSE
    ELSE IF IsFin(x) /\ IsFin(y) THEN x.num * y.den < y.num * x.den
    ELSE IF x.kind = y.kind THEN FALSE
    ELSE x.kind = "ninf" \/ y.kind = "inf"

\* a/b < c/d for naturals a, c and positive b, d, without forming a*d or c*b
RECURSIVE RatLess(_, _, _, _)
RatLess(a, b, c, d) ==
    IF (a \div b) # (c \div d) THEN (a \div b) < (c \div d)
    ELSE IF c % d = 0 THEN FALSE
    ELSE IF a % b = 0 THEN TRUE
    ELSE RatLess(d, c % d, b, a % b)

----------------------------------------------------------------------------
(* pandas / numpy column operations used by fetch_and_analyze_data *)

\* pct_change() with the "- 1" left out: the price ratio instead of the change
pct_change_ratio(x) ==
    [i \in 1..Len(x) |-> IF i = 1 THEN NaN ELSE FDiv(x[i], x[i - 1])]

\* Series.shift-and-divide of pct_change(): NaN in row 1, x[i]/x[i-1] - 1 after
pct_change(x) ==
    [i \in 1..Len(x) |->
        IF i = 1 THEN NaN ELSE FSub(FDiv(x[i], x[i - 1]), FromInt(1))]

\* Series * scalar
Times(x, k) == [i \in 1..Len(x) |-> FMul(x[i], FromInt(k))]

\* fillna() left out: NaN rows stay
fillna_skipped(x, v) == x

\* Series.fillna(v)
fillna(x, v) == [i \in 1..Len(x) |-> IF isnan(x[i]) THEN v ELSE x[i]]

\* Series.tolist() of the rows that are not NaN (skipna=True of the reductions)
RECURSIVE dropna(_)
dropna(x) ==
    IF x = <<>> THEN <<>>
    ELSE IF isnan(Head(x)) THEN dropna(Tail(x))
    ELSE <<Head(x)>> \o dropna(Tail(x))

RECURSIVE FSum(_)
FSum(x) == IF x = <<>> THEN FromInt(0) ELSE FAdd(Head(x), FSum(Tail(x)))

FMax(a, b) == IF FLess(a, b) THEN b ELSE a
FMin(a, b) == IF FLess(b, a) THEN b ELSE a

\* the price itself in place of its running maximum
cummax_skipped(x) == x

\* Series.cummax(): running maximum at or before each row
RECURSIVE cummax(_)
cummax(x) ==
    IF Len(x) <= 1 THEN x
    ELSE LET front == cummax(SubSeq(x, 1, Len(x) - 1))
         IN Append(front, FMax(front[Len(front)], x[Len(x)]))

RECURSIVE MinOf(_)
MinOf(x) == IF Len(x) = 1 THEN x[1] ELSE FMin(Head(x), MinOf(Tail(x)))

\* Series.min(): the least of the non-NaN rows, NaN when there is none
min(x) == IF dropna(x) = <<>> THEN NaN ELSE MinOf(dropna(x))

\* Series.std(): sample variance (ddof = 1) of the non-NaN rows,
\* avg = sum / count, var = sum((avg - v)^2) / (count - 1); NaN when
\* count <= 1 and when a row is infinite (inf - inf).  The result is the
\* variance whose square root the standard deviation is.
variance(x) ==
    LET v == dropna(x)
        count == Len(v)
        avg == FDiv(FSum(v), FromInt(count))
        sqr == [i \in 1..count |-> FMul(FSub(avg, v[i]), FSub(avg, v[i]))]
    IN IF count <= 1 THEN NaN ELSE FDiv(FSum(sqr), FromInt(count - 1))

\* sqrt(rad * q) for a double q
Root(rad, q) ==
    IF IsFin(q) /\ q.num = 0 THEN [kind |-> "val", rad |-> 1, num |-> 0, den |-> 1]
    ELSE IF IsFin(q) THEN [kind |-> "val", rad |-> rad, num |-> q.num, den |-> q.den]
    ELSE [kind |-> "nan", rad |-> 1, num |-> 0, den |-> 1]

\* the number n >= 0 as a volatility value
VolOf(n) == [kind |-> "val", rad |-> 1, num |-> n * n, den |-> 1]

\* df['daily_return'].std() * np.sqrt(365)
std_annualized(x) == Root(365, variance(x))

\* vol > k for a threshold k >= 0: sqrt(rad*num/den) > k iff k*k/rad < num/den
VolGreater(vol, k) ==
    vol.kind = "val" /\ RatLess(k * k, vol.rad, vol.num, vol.den)

----------------------------------------------------------------------------
(* backend.py *)

\* vol >= k for a threshold k >= 0
VolAtLeast(vol, k) ==
    vol.kind = "val" /\ ~RatLess(vol.num, vol.den, k * k, vol.rad)

\* the ladder with >= in place of >
get_risk_level_inclusive(vol) ==
    IF VolAtLeast(vol, 100) THEN <<"#ff2b2b", "EXTREME">>
    ELSE IF VolAtLeast(vol, 60) THEN <<"#ff9f1c", "HIGH">>
    ELSE IF VolAtLeast(vol, 30) THEN <<"#fbd400", "MODERATE">>
    ELSE <<"#2ec4b6", "LOW">>

\* the ladder returning (level, color), the order of get_manual_risk_level
get_risk_level_swapped(vol) ==
    IF VolGreater(vol, 100) THEN <<"EXTREME", "#ff2b2b">>
    ELSE IF VolGreater(vol, 60) THEN <<"HIGH", "#ff9f1c">>
    ELSE IF VolGreater(vol, 30) THEN <<"MODERATE", "#fbd400">>
    ELSE <<"LOW", "#2ec4b6">>

\* The tier labels are given without their emoji.
get_risk_level(vol) ==
    IF VolGreater(vol, 100) THEN <<"#ff2b2b", "EXTREME">>
    ELSE IF VolGreater(vol, 60) THEN <<"#ff9f1c", "HIGH">>
    ELSE IF VolGreater(vol, 30) THEN <<"#fbd400", "MODERATE">>
    ELSE <<"#2ec4b6", "LOW">>

\* nanoseconds per millisecond: the DatetimeIndex built with unit="ms" is
\* read back as int64 nanoseconds
NsPerMs == 1000000

\* What the upstream request (requests.get + response.json()) hands back:
\* it fails, or it is a JSON object without "prices", or one with a list of
\* [timestamp_ms, price] pairs.
FetchFailed == [kind |-> "fetch_error", prices |-> <<>>]
NoPricesField == [kind |-> "no_prices", prices |-> <<>>]
WithPrices(rows) == [kind |-> "prices", prices |-> rows]

\* Outcomes of fetch_and_analyze_data
ReturnNone == [kind |-> "none"]
Raise(exc) == [kind |-> "raise", exc |-> exc]
Return(rec) == [kind |-> "record", rec |-> rec]

\* lines 50-77, on the DataFrame built from a non-empty "prices" list
Metrics(rows) ==
    LET n == Len(rows)
        price == [i \in 1..n |-> FromInt(rows[i][2])]
        timestamp == [i \in 1..n |-> rows[i][1]]
        daily_return == Times(pct_change(price), 100)
        current_price == price[n]
        peak == cummax(price)
        drawdown == [i \in 1..n |->
                        FMul(FDiv(FSub(price[i], peak[i]), peak[i]), FromInt(100))]
        vol0 == IF n < 2 THEN VolOf(0) ELSE std_annualized(daily_return)
        max_drawdown0 == IF n < 2 THEN FromInt(0) ELSE min(drawdown)
        vol == IF isnan(vol0) THEN VolOf(0) ELSE vol0
        max_drawdown == IF isnan(max_drawdown0) THEN FromInt(0) ELSE max_drawdown0
        risk == get_risk_level(vol)
    IN [prices |-> price,
        current_price |-> current_price,
        volatility |-> vol,
        max_drawdown |-> max_drawdown,
        risk_level |-> risk[2],
        risk_color |-> risk[1],
        daily_returns |-> fillna(daily_return, FromInt(0)),
        timestamps |-> [i \in 1..n |-> timestamp[i] * NsPerMs]]

fetch_and_analyze_data(data) ==
    IF data.kind = "fetch_error" THEN Raise("RequestException")
    ELSE IF data.kind = "no_prices" THEN ReturnNone
    \* df['price'].iloc[-1] on the empty frame
    ELSE IF data.prices = <<>> THEN Raise("IndexError")
    ELSE Return(Metrics(data.prices))

\* `except Exception as e` of analyze_market: HTTPException is an Exception,
\* so the handler's own 404 is caught here as well
ExceptClause(exc) == [kind |-> "http", status |-> 500, detail |-> exc]

\* The try body of analyze_market, given fetch_and_analyze_data's outcome
TryBody(r) ==
    IF r.kind = "raise" THEN Raise(r.exc)
    ELSE IF r.kind = "none" THEN Raise("404: Coin data not found")
    ELSE [kind |-> "http", status |-> 200, body |-> r.rec]

analyze_market(data) ==
    LET out == TryBody(fetch_and_analyze_data(data))
    IN IF out.kind = "raise" THEN ExceptClause(out.exc) ELSE out

\* Upstream series: up to MaxLen samples, stamped t, t+step, ...
Series(n) ==
    { [i \in 1..n |-> <<(i - 1) * st, ps[i]>>] : st \in StampSteps, ps \in [1..n -> Prices] }

Upstream ==
    {FetchFailed, NoPricesField} \cup
    UNION { { WithPrices(rows) : rows \in Series(n) } : n \in 0..MaxLen }

Calls ==
    { [op |-> "analyze", data |-> d] : d \in Upstream } \cup
    { [op |-> "get_risk_level", vol |-> VolOf(v)] : v \in VolSamples }

Pending == [kind |-> "pending"]
Unset == [kind |-> "unset"]
NoCall == [op |-> "none"]

\* POST /analyze
Analyze ==
    /\ call.op = "analyze"
    /\ ret.kind = "pending"
    /\ result' = fetch_and_analyze_data(call.data)
    /\ ret' = analyze_market(call.data)
    /\ UNCHANGED <<call, frontend_vars>>

\* a direct call of get_risk_level
Classify ==
    /\ call.op = "get_risk_level"
    /\ ret.kind = "pending"
    /\ ret' = [kind |-> "tier", color |-> get_risk_level(call.vol)[1],
                                level |-> get_risk_level(call.vol)[2]]
    /\ UNCHANGED <<call, result, frontend_vars>>

----------------------------------------------------------------------------
(* frontend.py: session state, login, registration, logout *)

\* what a user may type into a username / password field
Names == {"admin", "alice", ""}
Passwords == {"1234", "abc", ""}

None == "<None>"
NoMessage == "<none>"
NoForm == [submitted |-> FALSE]

\* app flow controller (lines 290-297): the page function a script run renders
Controller(li, pg) ==
    IF li THEN "dashboard"
    ELSE IF pg = "register" THEN "register"
    ELSE "login"

\* the credential check without the password comparison
LoginOk_name_only(store, u, p) == u \in DOMAIN store

\* line 92: the credential check of the login form
LoginOk(store, u, p) == u \in DOMAIN store /\ store[u] = p

\* the registration checks without the existing-username check
RegisterError_no_exists(store, new_user, new_pass, confirm_pass) ==
    IF new_pass # confirm_pass THEN "Passwords do not match!"
    ELSE IF new_user = "" \/ new_pass = "" THEN "Please fill out all fields."
    ELSE NoMessage

\* lines 120-125: the error a registration is rejected with, NoMessage if none
RegisterError(store, new_user, new_pass, confirm_pass) ==
    IF new_user \in DOMAIN store THEN "Username already exists!"
    ELSE IF new_pass # confirm_pass THEN "Passwords do not match!"
    ELSE IF new_user = "" \/ new_pass = "" THEN "Please fill out all fields."
    ELSE NoMessage

\* line 127: st.session_state["users"][new_user] = new_pass
SetItem(store, k, v) ==
    [x \in DOMAIN store \cup {k} |-> IF x = k THEN v ELSE store[x]]

\* "Sign In" of the login form
LoginSubmit(u, p) ==
    /\ view = "login"
    /\ login_form' = [submitted |-> TRUE, username |-> u, password |-> p]
    /\ IF LoginOk(users, u, p)
       THEN /\ logged_in' = TRUE
            /\ username' = u
            /\ message' = NoMessage
            /\ view' = Controller(TRUE, page)
       ELSE /\ message' = "Invalid Username or Password"
            /\ UNCHANGED <<logged_in, username, view>>
    /\ UNCHANGED <<users, page, register_form, backend_vars>>

\* "Create New Account" on the login page
CreateNewAccount ==
    /\ view = "login"
    /\ page' = "register"
    /\ view' = Controller(logged_in, "register")
    /\ message' = NoMessage
    /\ UNCHANGED <<logged_in, username, users, login_form, register_form, backend_vars>>

\* "Register" of the registration form
RegisterSubmit(new_user, new_pass, confirm_pass) ==
    /\ view = "register"
    /\ register_form' = [submitted |-> TRUE, new_user |-> new_user,
                         new_pass |-> new_pass, confirm_pass |-> confirm_pass]
    /\ LET err == RegisterError(users, new_user, new_pass, confirm_pass)
       IN IF err = NoMessage
          THEN /\ users' = SetItem(users, new_user, new_pass)
               /\ page' = "login"
               /\ view' = Controller(logged_in, "login")
               /\ message' = NoMessage
          ELSE /\ message' = err
               /\ UNCHANGED <<users, page, view>>
    /\ UNCHANGED <<logged_in, username, login_form, backend_vars>>

\* "Back to Login" on the registration page
BackToLogin ==
    /\ view = "register"
    /\ page' = "login"
    /\ view' = Controller(logged_in, "login")
    /\ message' = NoMessage
    /\ UNCHANGED <<logged_in, username, users, login_form, register_form, backend_vars>>

\* "Logout" in the dashboard's sidebar
Logout ==
    /\ view = "dashboard"
    /\ logged_in' = FALSE
    /\ username' = None
    /\ view' = Controller(FALSE, page)
    /\ message' = NoMessage
    /\ UNCHANGED <<users, page, login_form, register_form, backend_vars>>

----------------------------------------------------------------------------
(* Specifications *)

\* session state initialization (lines 35-43) and the first script run
SessionInit ==
    /\ logged_in = FALSE
    /\ username = None
    /\ users = [u \in {"admin"} |-> "1234"]
    /\ page = "login"
    /\ view = Controller(FALSE, "login")
    /\ message = NoMessage
    /\ login_form = NoForm
    /\ register_form = NoForm

InitBackend ==
    /\ call \in Calls
    /\ result = Unset
    /\ ret = Pending
    /\ SessionInit

NextBackend == Analyze \/ Classify

SpecBackend == InitBackend /\ [][NextBackend]_vars

InitFrontend ==
    /\ call = NoCall
    /\ result = Unset
    /\ ret = Pending
    /\ SessionInit

NextFrontend ==
    \/ \E u \in Names, p \in Passwords : LoginSubmit(u, p)
    \/ CreateNewAccount
    \/ \E u \in Names, p \in Passwords, c \in Passwords : RegisterSubmit(u, p, c)
    \/ BackToLogin
    \/ Logout

SpecFrontend == InitFrontend /\ [][NextFrontend]_vars

----------------------------------------------------------------------------
(* Claims about the backend, checked under SpecBackend *)

Served == ret.kind = "http"
Input == call.data.prices
Rec == result.rec
Zero == FromInt(0)

\* C1: POST /analyze answers 404 when fetch_and_analyze_data returns None,
\* 500 when it raises, and the metrics record otherwise; a not-found outcome
\* is never answered with 500.
C1_StatusByOutcome ==
    Served =>
        /\ result.kind = "none" => ret.status = 404
        /\ result.kind = "raise" => ret.status = 500
        /\ result.kind = "record" => ret.status = 200 /\ ret.body = Rec
        /\ ~(result.kind = "none" /\ ret.status = 500)

\* C2: for an upstream response without a prices field and for one whose
\* prices list is empty, fetch_and_analyze_data returns None: no record and
\* no exception.
C2_EmptyIsNone ==
    (Served /\ (call.data.kind = "no_prices"
                  \/ (call.data.kind = "prices" /\ Input = <<>>)))
        => result.kind = "none"

\* C3: no daily return of a returned record is NaN or infinite, a return
\* computed over a zero previous price is 0, and volatility and max_drawdown
\* are not NaN.
C3_NoUndefinedValue ==
    (Served /\ result.kind = "record") =>
        /\ \A i \in 1..Len(Rec.daily_returns) :
              /\ Rec.daily_returns[i].kind = "fin"
              /\ (i > 1 /\ Input[i - 1][2] = 0) => Rec.daily_returns[i] = Zero
        /\ Rec.volatility.kind = "val"
        /\ Rec.max_drawdown.kind = "fin"

\* the color that goes with a tier
ColorOf(level) ==
    CASE level = "EXTREME" -> "#ff2b2b"
      [] level = "HIGH" -> "#ff9f1c"
      [] level = "MODERATE" -> "#fbd400"
      [] level = "LOW" -> "#2ec4b6"
      [] OTHER -> "no color"

\* C4: get_risk_level is the strict top-down ladder (> 100 EXTREME, > 60
\* HIGH, > 30 MODERATE, else LOW), the boundaries 100, 60 and 30 fall into
\* the lower tier, each tier has its one color, and a returned record's
\* risk_level and risk_color are those of its (coerced) volatility.
C4_RiskLadder ==
    /\ ret.kind = "tier" =>
          \A v \in VolSamples :
              call.vol = VolOf(v) =>
                  /\ ret.level = (IF v > 100 THEN "EXTREME"
                                  ELSE IF v > 60 THEN "HIGH"
                                  ELSE IF v > 30 THEN "MODERATE"
                                  ELSE "LOW")
                  /\ ret.color = ColorOf(ret.level)
    /\ (Served /\ result.kind = "record") =>
          /\ Rec.risk_level \in {"EXTREME", "HIGH", "MODERATE", "LOW"}
          /\ Rec.risk_level = "EXTREME" <=> VolGreater(Rec.volatility, 100)
          /\ Rec.risk_level = "HIGH" <=>
                (VolGreater(Rec.volatility, 60) /\ ~VolGreater(Rec.volatility, 100))
          /\ Rec.risk_level = "MODERATE" <=>
                (VolGreater(Rec.volatility, 30) /\ ~VolGreater(Rec.volatility, 60))
          /\ Rec.risk_color = ColorOf(Rec.risk_level)

C4_Witness ==
    /\ ret.kind = "tier"
    /\ call.vol = VolOf(100)
    /\ ret.level = "HIGH"

\* C5: a returned record has as many daily returns, prices and timestamps
\* as the input series has samples, its prices are the input prices in
\* input order, and its first daily return is 0.
C5_Lengths ==
    (Served /\ result.kind = "record") =>
        /\ Len(Rec.daily_returns) = Len(Input)
        /\ Len(Rec.prices) = Len(Input)
        /\ Len(Rec.timestamps) = Len(Input)
        /\ \A i \in 1..Len(Input) : Rec.prices[i] = FromInt(Input[i][2])
        /\ Rec.daily_returns[1] = Zero

C5_Witness ==
    /\ Served /\ result.kind = "record"
    /\ Len(Input) = 3
    /\ Rec.daily_returns[2] # Zero

\* the highest input price at or before position i
PeakAt(i) == CHOOSE m \in {Input[j][2] : j \in 1..i} :
                 \A j \in 1..i : Input[j][2] <= m

\* the drawdown at position i, in percent
DrawdownAt(i) == Fin((Input[i][2] - PeakAt(i)) * 100, PeakAt(i))

\* C6: for a series of two or more positive prices max_drawdown is the
\* least drawdown over all positions; so it is <= 0, it is 0 for a strictly
\* increasing series, and for [100, 110, 90, 120] it is (90-110)/110*100.
C6_MaxDrawdown ==
    (/\ Served /\ result.kind = "record"
     /\ Len(Input) >= 2
     /\ \A i \in 1..Len(Input) : Input[i][2] > 0) =>
        /\ \E i \in 1..Len(Input) : Rec.max_drawdown = DrawdownAt(i)
        /\ \A i \in 1..Len(Input) : ~FLess(DrawdownAt(i), Rec.max_drawdown)
        /\ ~FLess(Zero, Rec.max_drawdown)
        /\ (\A i \in 2..Len(Input) : Input[i - 1][2] < Input[i][2])
              => Rec.max_drawdown = Zero
        /\ [i \in 1..Len(Input) |-> Input[i][2]] = <<100, 110, 90, 120>>
              => Rec.max_drawdown = Fin((90 - 110) * 100, 110)

C6_Witness ==
    /\ Served /\ result.kind = "record"
    /\ [i \in 1..Len(Input) |-> Input[i][2]] = <<100, 110, 90, 120>>
    /\ Rec.max_drawdown = Fin(-200, 11)

\* C7: for a series of exactly one sample the record has volatility 0 and
\* max_drawdown 0, current_price is that sample's price, and the risk level
\* is LOW.
C7_SingleSample ==
    (Served /\ result.kind = "record" /\ Len(Input) = 1) =>
        /\ Rec.volatility = VolOf(0)
        /\ Rec.max_drawdown = Zero
        /\ Rec.current_price = FromInt(Input[1][2])
        /\ Rec.risk_level = "LOW"

C7_Witness ==
    /\ Served /\ result.kind = "record"
    /\ Len(Input) = 1
    /\ Rec.current_price = FromInt(110)

\* C8: for a series whose prices are all equal every daily return is 0,
\* volatility is 0, max_drawdown is 0 and the risk level is LOW.
C8_AllEqual ==
    (/\ Served /\ result.kind = "record"
     /\ \A i \in 1..Len(Input) : Input[i][2] = Input[1][2]) =>
        /\ \A i \in 1..Len(Input) : Rec.daily_returns[i] = Zero
        /\ Rec.volatility = VolOf(0)
        /\ Rec.max_drawdown = Zero
        /\ Rec.risk_level = "LOW"

C8_Witness ==
    /\ Served /\ result.kind = "record"
    /\ [i \in 1..Len(Input) |-> Input[i][2]] = <<100, 100, 100>>
    /\ Rec.risk_level = "LOW"

----------------------------------------------------------------------------
(* Claims about the front end, checked under SpecFrontend *)

RegisterErrors ==
    {"Username already exists!", "Passwords do not match!", "Please fill out all fields."}

C9_Step ==
    /\ \A u \in DOMAIN users : u \in DOMAIN users' /\ users'[u] = users[u]
    /\ \A u \in DOMAIN users' \ DOMAIN users :
          /\ u # ""
          /\ users'[u] # ""
          /\ register_form'.submitted
          /\ register_form'.new_user = u
          /\ register_form'.new_pass = users'[u]
          /\ register_form'.confirm_pass = users'[u]
    /\ message' \in RegisterErrors => UNCHANGED <<users, page>>

\* C9: the user store only grows and is insert-if-absent: no step changes
\* or removes an existing entry (the admin entry included), an inserted entry
\* has a non-empty username and a non-empty password equal to its
\* confirmation, and a rejected registration leaves store and page unchanged.
C9_StoreGrows ==
    /\ []("admin" \in DOMAIN users /\ users["admin"] = "1234")
    /\ [][C9_Step]_vars

C9_Witness ==
    /\ "alice" \in DOMAIN users
    /\ message = "Username already exists!"
    /\ register_form.submitted
    /\ register_form.new_user = "admin"

C10_Inv ==
    /\ logged_in <=> username # None
    /\ logged_in =>
          /\ username \in DOMAIN users
          /\ login_form.submitted
          /\ login_form.username = username
          /\ login_form.password = users[username]
    /\ view = "dashboard" => logged_in

C10_Step ==
    /\ message' = "Invalid Username or Password" => UNCHANGED <<logged_in, username>>
    /\ (view = "dashboard" /\ view' # "dashboard") =>
          (logged_in' = FALSE /\ username' = None)

\* C10: logged_in holds exactly when username is set; then the username is
\* in the user store and came from a login whose password is the stored
\* one; a failed login changes neither, logout resets both, and the
\* dashboard is rendered only while logged_in holds.
C10_Session == []C10_Inv /\ [][C10_Step]_vars

C10_Witness ==
    /\ logged_in
    /\ username = "alice"
    /\ view = "dashboard"

====
